---- MODULE Spec2Model ----
(***************************************************************************)
(* The submission pipeline of the exam-grading assistant: the React state  *)
(* of App (src/App.tsx), the bulk PDF segmentation of handleFileSelect,    *)
(* the sequential grading loop of startGrading and the response            *)
(* normalisation of gradeSubmission (src/services/geminiService.ts).       *)
(*                                                                         *)
(* One action is one event-loop task: a user event handler, or the         *)
(* continuation of an async function after an await.  React state set in   *)
(* a task is the state the next task reads.  An optional JavaScript value  *)
(* (undefined / null or a value) is a sequence of length 0 or 1.           *)
(***************************************************************************)
EXTENDS Integers, Sequences, FiniteSets, TLC

\* ------------------------------------------------------------------ bounds
\* ids uuidv4() hands out, per specification
MaxRecords == 2
MaxSequentialRecords == 3
MaxUploadRecords == 3
MaxResponseRecords == 1
MaxExportRecords == 2
\* invocations of startGrading
MaxRuns == 2
\* pages of an uploaded PDF
MaxPages == 3
MaxStaged == 1
MaxPagesInput == 3
MaxTimers == 1
MaxQuestion == 4

\* ------------------------------------------------- AppStep (src/types.ts)
SETUP == 1
UPLOAD_STUDENTS == 2
GRADING == 3

VARIABLES
    currentStep,      \* useState<AppStep>
    referenceFile,    \* useState<File | null>
    submissions,      \* useState<StudentSubmission[]>
    isGrading,        \* useState(false)
    toastMessage,     \* useState<string | null>
    isProcessingPdf,  \* useState(false)
    stagedFiles,      \* useState<File[]>
    isBulkMode,       \* useState(false)
    pagesPerStudent,  \* useState(1)
    uuidCounter,      \* the next id uuidv4() hands out
    runs,             \* the suspended invocations of startGrading
    runsStarted,      \* how many times startGrading got past its guard
    pdfJob,           \* the suspended bulk invocation of handleFileSelect
    toastTimers       \* pending setTimeout callbacks of showToast

vars == <<currentStep, referenceFile, submissions, isGrading, toastMessage,
          isProcessingPdf, stagedFiles, isBulkMode, pagesPerStudent,
          uuidCounter, runs, runsStarted, pdfJob, toastTimers>>

\* ----------------------------------------------------------------- values
None == <<>>
Some(x) == <<x>>

Min(a, b) == IF a < b THEN a ELSE b
Max(a, b) == IF a > b THEN a ELSE b

\* File objects: what the pipeline reads of them is type, name and, for a
\* PDF, its pages.
ImageFile(n) == [type |-> "image/jpeg", name |-> n, page |-> 0, numPages |-> 0]
PdfFile(n, k) == [type |-> "application/pdf", name |-> n, page |-> 0, numPages |-> k]

ReferenceFiles == {PdfFile("key.pdf", 1)}
\* What the user stages in standard mode: the scan of the next student.
\* Scans of different students are different files.
UploadSelections == {<<ImageFile("student" \o ToString(uuidCounter) \o ".jpg")>>}
BulkSelections == {<<ImageFile("a.jpg")>>} \cup {<<PdfFile("scan.pdf", n)>> : n \in 0..MaxPages}

\* `${name.replace('.pdf','')}_page_${i}.jpg`: the base name and the page number.
PageArtifact(pdfFile, i) ==
    [type |-> "image/jpeg", name |-> "scan_page", page |-> i, numPages |-> 0]

\* Toast texts.
ToastBulkPdfOnly == [text |-> "bulk-pdf-only", count |-> 0]
ToastPdfDone(n) == [text |-> "pdf-done", count |-> n]
ToastPdfError == [text |-> "pdf-error", count |-> 0]
ToastOCRIssues == [text |-> "ocr-issues", count |-> 0]

\* ------------------------------------------------------------- showToast
\* setToastMessage(msg); setTimeout(() => setToastMessage(null), 6000)
showToast(msg) ==
    /\ toastMessage' = Some(msg)
    /\ toastTimers' = Min(toastTimers + 1, MaxTimers)

ToastTimeout ==
    /\ toastTimers > 0
    /\ toastTimers' = toastTimers - 1
    /\ toastMessage' = None
    /\ UNCHANGED <<currentStep, referenceFile, submissions, isGrading,
                   isProcessingPdf, stagedFiles, isBulkMode, pagesPerStudent,
                   uuidCounter, runs, runsStarted, pdfJob>>

\* The overlay rendered while isProcessingPdf covers the page (fixed inset-0
\* z-50): no control receives a click while it is shown.
Clickable == ~isProcessingPdf

ToastClose ==
    /\ Clickable
    /\ toastMessage # None
    /\ toastMessage' = None
    /\ UNCHANGED <<currentStep, referenceFile, submissions, isGrading,
                   isProcessingPdf, stagedFiles, isBulkMode, pagesPerStudent,
                   uuidCounter, runs, runsStarted, pdfJob, toastTimers>>

\* ------------------------------------------------------ StudentSubmission
\* NewSubmission with one id for every record.
NewSubmissionSameId(id, files) ==
    [id |-> 1, files |-> files, status |-> "pending",
     result |-> None, errorMsg |-> None]

\* { id: uuidv4(), files, status: 'pending' }
NewSubmission(id, files) ==
    [id |-> id, files |-> files, status |-> "pending",
     result |-> None, errorMsg |-> None]

Ids(subs) == {subs[j].id : j \in 1..Len(subs)}

\* ------------------------------------------------- step 1: reference file
handleReferenceSelect(files) ==
    IF files = None \/ files[1] = <<>>
    THEN UNCHANGED referenceFile
    ELSE referenceFile' = Some(files[1][1])

HandleReferenceSelect ==
    /\ Clickable
    /\ currentStep = SETUP
    /\ \E f \in ReferenceFiles : handleReferenceSelect(Some(<<f>>))
    /\ UNCHANGED <<currentStep, submissions, isGrading, toastMessage,
                   isProcessingPdf, stagedFiles, isBulkMode, pagesPerStudent,
                   uuidCounter, runs, runsStarted, pdfJob, toastTimers>>

\* RemoveReference that leaves the step where it is.
RemoveReferenceKeepsStep ==
    /\ Clickable
    /\ referenceFile # None
    /\ referenceFile' = None
    /\ UNCHANGED <<currentStep, submissions, isGrading, toastMessage,
                   isProcessingPdf, stagedFiles, isBulkMode, pagesPerStudent,
                   uuidCounter, runs, runsStarted, pdfJob, toastTimers>>

\* The sidebar's remove button, rendered whenever a reference file is set.
RemoveReference ==
    /\ Clickable
    /\ referenceFile # None
    /\ referenceFile' = None
    /\ currentStep' = SETUP
    /\ UNCHANGED <<submissions, isGrading, toastMessage, isProcessingPdf,
                   stagedFiles, isBulkMode, pagesPerStudent, uuidCounter,
                   runs, runsStarted, pdfJob, toastTimers>>

\* "next" of step 1, rendered only with a reference file.
GoToUpload ==
    /\ Clickable
    /\ currentStep = SETUP
    /\ referenceFile # None
    /\ currentStep' = UPLOAD_STUDENTS
    /\ UNCHANGED <<referenceFile, submissions, isGrading, toastMessage,
                   isProcessingPdf, stagedFiles, isBulkMode, pagesPerStudent,
                   uuidCounter, runs, runsStarted, pdfJob, toastTimers>>

\* "back" of step 2.
BackToSetup ==
    /\ Clickable
    /\ currentStep = UPLOAD_STUDENTS
    /\ currentStep' = SETUP
    /\ UNCHANGED <<referenceFile, submissions, isGrading, toastMessage,
                   isProcessingPdf, stagedFiles, isBulkMode, pagesPerStudent,
                   uuidCounter, runs, runsStarted, pdfJob, toastTimers>>

\* ------------------------------------------------ step 2: bulk settings
ToggleBulkMode ==
    /\ Clickable
    /\ currentStep = UPLOAD_STUDENTS
    /\ isBulkMode' = ~isBulkMode
    /\ stagedFiles' = <<>>
    /\ UNCHANGED <<currentStep, referenceFile, submissions, isGrading,
                   toastMessage, isProcessingPdf, pagesPerStudent,
                   uuidCounter, runs, runsStarted, pdfJob, toastTimers>>

\* The two preset buttons: setPagesPerStudent(1), setPagesPerStudent(2).
PagesPreset(n) ==
    /\ Clickable
    /\ currentStep = UPLOAD_STUDENTS
    /\ isBulkMode
    /\ pagesPerStudent' = n
    /\ UNCHANGED <<currentStep, referenceFile, submissions, isGrading,
                   toastMessage, isProcessingPdf, stagedFiles, isBulkMode,
                   uuidCounter, runs, runsStarted, pdfJob, toastTimers>>

\* Math.max(1, parseInt(e.target.value) || 1); parsed is parseInt's value,
\* None for NaN.  NaN and 0 are falsy.
PagesFromInput(parsed) ==
    Max(1, IF parsed = None \/ parsed[1] = 0 THEN 1 ELSE parsed[1])

ParsedInputs == {None} \cup {Some(n) : n \in (-1)..MaxPagesInput}

PagesInput ==
    /\ Clickable
    /\ currentStep = UPLOAD_STUDENTS
    /\ isBulkMode
    /\ \E parsed \in ParsedInputs : pagesPerStudent' = PagesFromInput(parsed)
    /\ UNCHANGED <<currentStep, referenceFile, submissions, isGrading,
                   toastMessage, isProcessingPdf, stagedFiles, isBulkMode,
                   uuidCounter, runs, runsStarted, pdfJob, toastTimers>>

\* ------------------------------------------------------- segmentation
\* Slice with the end of the range off by one.
SliceShort(images, i, p) == SubSeq(images, i + 1, Min(i + p - 1, Len(images)))

\* images.slice(i, i + p) with i counted from 0.
Slice(images, i, p) == SubSeq(images, i + 1, Min(i + p, Len(images)))

\* for (let i = 0; i < images.length; i += pagesPerStudent) { ... push ... }
\* id is the id uuidv4() returns for the next record.
RECURSIVE SplitLoop(_, _, _, _)
SplitLoop(images, p, i, id) ==
    IF i < Len(images)
    THEN LET studentImages == Slice(images, i, p) IN
         IF Len(studentImages) > 0
         THEN <<NewSubmission(id, studentImages)>>
                  \o SplitLoop(images, p, i + p, id + 1)
         ELSE SplitLoop(images, p, i + p, id)
    ELSE <<>>

SplitIntoStudents(images, p, id) == SplitLoop(images, p, 0, id)

\* The images convertPdfToImages resolves with: one per page whose canvas
\* produced a blob (toBlob may call back with null), in page order.
RECURSIVE RenderedPages(_, _, _)
RenderedPages(pdfFile, i, noBlob) ==
    IF i > pdfFile.numPages THEN <<>>
    ELSE (IF i \in noBlob THEN <<>> ELSE <<PageArtifact(pdfFile, i)>>)
             \o RenderedPages(pdfFile, i + 1, noBlob)

convertPdfToImages(pdfFile, noBlob) == RenderedPages(pdfFile, 1, noBlob)

\* --------------------------------------------- step 2: handleFileSelect
\* Standard mode: setStagedFiles(prev => [...prev, ...fileArray]).
\* Bulk mode: a non-PDF is refused with a toast; a PDF starts the
\* conversion and the handler suspends at the await.
HandleFileSelectUpTo(maxRecords) ==
    /\ Clickable
    /\ currentStep = UPLOAD_STUDENTS
    /\ IF isBulkMode
       THEN \E fileArray \in BulkSelections :
              LET file == fileArray[1] IN
              IF file.type # "application/pdf"
              THEN /\ showToast(ToastBulkPdfOnly)
                   /\ UNCHANGED <<isProcessingPdf, pdfJob, stagedFiles>>
              ELSE /\ uuidCounter + file.numPages <= maxRecords + 1
                   /\ isProcessingPdf' = TRUE
                   /\ pdfJob' = Some([file |-> file,
                                      pagesPerStudent |-> pagesPerStudent,
                                      pc |-> "converting",
                                      images |-> <<>>])
                   /\ UNCHANGED <<toastMessage, toastTimers, stagedFiles>>
       ELSE \E fileArray \in UploadSelections :
              /\ Len(stagedFiles) + Len(fileArray) <= MaxStaged
              /\ stagedFiles' = stagedFiles \o fileArray
              /\ UNCHANGED <<toastMessage, toastTimers, isProcessingPdf, pdfJob>>
    /\ UNCHANGED <<currentStep, referenceFile, submissions, isGrading,
                   isBulkMode, pagesPerStudent, uuidCounter, runs, runsStarted>>

HandleFileSelect == HandleFileSelectUpTo(MaxRecords)

\* convertPdfToImages settles: it resolves with the rendered pages or
\* rejects (getDocument, getPage, render or a missing 2d context throws).
PdfConverted ==
    /\ pdfJob # None
    /\ pdfJob[1].pc = "converting"
    /\ \/ \E noBlob \in SUBSET (1..pdfJob[1].file.numPages) :
            pdfJob' = Some([pdfJob[1] EXCEPT
                              !.pc = "resolved",
                              !.images = convertPdfToImages(pdfJob[1].file, noBlob)])
       \/ pdfJob' = Some([pdfJob[1] EXCEPT !.pc = "rejected"])
    /\ UNCHANGED <<currentStep, referenceFile, submissions, isGrading,
                   toastMessage, isProcessingPdf, stagedFiles, isBulkMode,
                   pagesPerStudent, uuidCounter, runs, runsStarted, toastTimers>>

\* The continuation after the await: split, append, toast; finally clears
\* isProcessingPdf.  pagesPerStudent is the value the handler closed over.
PdfSegment ==
    /\ pdfJob # None
    /\ pdfJob[1].pc = "resolved"
    /\ LET newSubmissions == SplitIntoStudents(pdfJob[1].images,
                                               pdfJob[1].pagesPerStudent,
                                               uuidCounter)
       IN /\ submissions' = submissions \o newSubmissions
          /\ uuidCounter' = uuidCounter + Len(newSubmissions)
          /\ showToast(ToastPdfDone(Len(newSubmissions)))
    /\ isProcessingPdf' = FALSE
    /\ pdfJob' = None
    /\ UNCHANGED <<currentStep, referenceFile, isGrading, stagedFiles,
                   isBulkMode, pagesPerStudent, runs, runsStarted>>

\* PdfFailed without the finally block.
PdfFailedNoFinally ==
    /\ pdfJob # None
    /\ pdfJob[1].pc = "rejected"
    /\ showToast(ToastPdfError)
    /\ pdfJob' = None
    /\ UNCHANGED <<currentStep, referenceFile, submissions, isGrading,
                   stagedFiles, isBulkMode, pagesPerStudent, uuidCounter,
                   runs, runsStarted, isProcessingPdf>>

\* The catch branch, then finally.
PdfFailed ==
    /\ pdfJob # None
    /\ pdfJob[1].pc = "rejected"
    /\ showToast(ToastPdfError)
    /\ isProcessingPdf' = FALSE
    /\ pdfJob' = None
    /\ UNCHANGED <<currentStep, referenceFile, submissions, isGrading,
                   stagedFiles, isBulkMode, pagesPerStudent, uuidCounter,
                   runs, runsStarted>>

\* ------------------------------------------------ step 2: staging, queue
\* addStudentToQueue without its first statement.
addStudentToQueueUnguarded ==
    /\ submissions' = Append(submissions,
                             NewSubmission(uuidCounter, stagedFiles))
    /\ stagedFiles' = <<>>
    /\ uuidCounter' = uuidCounter + 1

\* if (stagedFiles.length === 0) return; then the append and the reset.
addStudentToQueue ==
    IF Len(stagedFiles) = 0
    THEN UNCHANGED <<submissions, stagedFiles, uuidCounter>>
    ELSE /\ submissions' = Append(submissions,
                                  NewSubmission(uuidCounter, stagedFiles))
         /\ stagedFiles' = <<>>
         /\ uuidCounter' = uuidCounter + 1

\* The button is rendered in standard mode with at least one staged file.
AddStudentToQueueUpTo(maxRecords) ==
    /\ Clickable
    /\ currentStep = UPLOAD_STUDENTS
    /\ ~isBulkMode
    /\ Len(stagedFiles) > 0
    /\ uuidCounter <= maxRecords
    /\ addStudentToQueue
    /\ UNCHANGED <<currentStep, referenceFile, isGrading, toastMessage,
                   isProcessingPdf, isBulkMode, pagesPerStudent, runs, runsStarted,
                   pdfJob, toastTimers>>

AddStudentToQueue == AddStudentToQueueUpTo(MaxRecords)

\* addStudentToQueue called as a function, whatever the page renders: the
\* call with nothing staged is the one its first statement is written for.
AddStudentToQueueCall(maxRecords) ==
    /\ Clickable
    /\ uuidCounter <= maxRecords
    /\ addStudentToQueue
    /\ UNCHANGED <<currentStep, referenceFile, isGrading, toastMessage,
                   isProcessingPdf, isBulkMode, pagesPerStudent, runs, runsStarted,
                   pdfJob, toastTimers>>

\* prev.filter((_, i) => i !== index), index counted from 0.
RECURSIVE FilterIndex(_, _, _)
FilterIndex(s, index, i) ==
    IF i > Len(s) THEN <<>>
    ELSE (IF i - 1 # index THEN <<s[i]>> ELSE <<>>) \o FilterIndex(s, index, i + 1)

RemoveStagedFile ==
    /\ Clickable
    /\ currentStep = UPLOAD_STUDENTS
    /\ ~isBulkMode
    /\ \E index \in 0..(Len(stagedFiles) - 1) :
         stagedFiles' = FilterIndex(stagedFiles, index, 1)
    /\ UNCHANGED <<currentStep, referenceFile, submissions, isGrading,
                   toastMessage, isProcessingPdf, isBulkMode, pagesPerStudent,
                   uuidCounter, runs, runsStarted, pdfJob, toastTimers>>

\* FilterId that also drops every record behind the one removed.
FilterIdAndAfter(subs, id) ==
    LET hit == {j \in 1..Len(subs) : subs[j].id = id} IN
    IF hit = {} THEN subs
    ELSE SubSeq(subs, 1, (CHOOSE j \in hit : \A h \in hit : j <= h) - 1)

\* prev.filter(s => s.id !== id)
RECURSIVE FilterId(_, _)
FilterId(subs, id) ==
    IF subs = <<>> THEN <<>>
    ELSE (IF Head(subs).id # id THEN <<Head(subs)>> ELSE <<>>)
             \o FilterId(Tail(subs), id)

removeSubmission(id) == submissions' = FilterId(submissions, id)

\* The trash button of a queue entry of step 2.
RemoveSubmission ==
    /\ Clickable
    /\ currentStep = UPLOAD_STUDENTS
    /\ \E id \in Ids(submissions) : removeSubmission(id)
    /\ UNCHANGED <<currentStep, referenceFile, isGrading, toastMessage,
                   isProcessingPdf, stagedFiles, isBulkMode, pagesPerStudent,
                   uuidCounter, runs, runsStarted, pdfJob, toastTimers>>

\* ------------------------------------------------------- gradeSubmission
\* JavaScript values of a parsed response.  A string is a sequence of
\* characters, " " being white space.
JsUndefined == [type |-> "undefined", str |-> <<>>, num |-> 0, arr |-> <<>>]
JsNull == [type |-> "null", str |-> <<>>, num |-> 0, arr |-> <<>>]
JsString(s) == [type |-> "string", str |-> s, num |-> 0, arr |-> <<>>]
JsNumber(n) == [type |-> "number", str |-> <<>>, num |-> n, arr |-> <<>>]
JsArray(a) == [type |-> "array", str |-> <<>>, num |-> 0, arr |-> a]

\* !v is false exactly for a truthy v.
Truthy(v) ==
    CASE v.type \in {"undefined", "null"} -> FALSE
      [] v.type = "string" -> v.str # <<>>
      [] v.type = "number" -> v.num # 0
      [] OTHER -> TRUE

\* String.prototype.trim
RECURSIVE TrimLeft(_)
TrimLeft(s) == IF s # <<>> /\ Head(s) = " " THEN TrimLeft(Tail(s)) ELSE s
RECURSIVE TrimRight(_)
TrimRight(s) ==
    IF s # <<>> /\ s[Len(s)] = " " THEN TrimRight(SubSeq(s, 1, Len(s) - 1)) ELSE s
Trim(s) == TrimRight(TrimLeft(s))

NameSentinel == <<"(no name)">>      \* "이름 없음"
ClassSentinel == <<"(no class)">>    \* "반 정보 없음"
FeedbackSentinel == JsString(<<"(no feedback)">>)   \* "피드백이 없습니다."

\* MissingText without the test for white space.
MissingTextNoTrim(v) == ~Truthy(v) \/ v.type # "string"

\* !x || typeof x !== 'string' || x.trim() === ''
MissingText(v) == ~Truthy(v) \/ v.type # "string" \/ Trim(v.str) = <<>>

\* Normalize that hands total_score and scores through unchecked.
NormalizeUnchecked(rawResult) ==
    [student_name |-> IF MissingText(rawResult.student_name)
                      THEN NameSentinel ELSE rawResult.student_name.str,
     student_class |-> IF MissingText(rawResult.student_class)
                       THEN ClassSentinel ELSE rawResult.student_class.str,
     total_score |-> rawResult.total_score,
     feedback |-> IF Truthy(rawResult.feedback)
                  THEN rawResult.feedback ELSE FeedbackSentinel,
     scores |-> rawResult.scores,
     hasOCRIssues |-> MissingText(rawResult.student_name)
                         \/ MissingText(rawResult.student_class)]

\* Normalize that also raises the flag when total_score is defaulted.
NormalizeFlaggingScores(rawResult) ==
    [student_name |-> IF MissingText(rawResult.student_name)
                      THEN NameSentinel ELSE rawResult.student_name.str,
     student_class |-> IF MissingText(rawResult.student_class)
                       THEN ClassSentinel ELSE rawResult.student_class.str,
     total_score |-> IF rawResult.total_score.type = "number"
                     THEN rawResult.total_score ELSE JsNumber(0),
     feedback |-> IF Truthy(rawResult.feedback)
                  THEN rawResult.feedback ELSE FeedbackSentinel,
     scores |-> IF rawResult.scores.type = "array"
                THEN rawResult.scores ELSE JsArray(<<>>),
     hasOCRIssues |-> MissingText(rawResult.student_name)
                         \/ MissingText(rawResult.student_class)
                         \/ rawResult.total_score.type # "number"]

\* The object gradeSubmission returns for a parsed rawResult.  total_score,
\* scores and feedback are JavaScript values: the type of what is returned
\* is part of the result.
Normalize(rawResult) ==
    [student_name |-> IF MissingText(rawResult.student_name)
                      THEN NameSentinel ELSE rawResult.student_name.str,
     student_class |-> IF MissingText(rawResult.student_class)
                       THEN ClassSentinel ELSE rawResult.student_class.str,
     total_score |-> IF rawResult.total_score.type = "number"
                     THEN rawResult.total_score ELSE JsNumber(0),
     feedback |-> IF Truthy(rawResult.feedback)
                  THEN rawResult.feedback ELSE FeedbackSentinel,
     scores |-> IF rawResult.scores.type = "array"
                THEN rawResult.scores ELSE JsArray(<<>>),
     hasOCRIssues |-> MissingText(rawResult.student_name)
                         \/ MissingText(rawResult.student_class)]

\* What is thrown: an Error with a message, or another value.
ErrorObject(m) == [isError |-> TRUE, message |-> m]
\* The event FileReader.onerror rejects with is not an Error; message is
\* the message of the failure it reports (reader.error).
ReadFailureEvent == [isError |-> FALSE, message |-> "(event)"]

Resolved(result) == [ok |-> TRUE, result |-> Some(result), thrown |-> None]
Rejected(e) == [ok |-> FALSE, result |-> None, thrown |-> Some(e)]

\* How a call of gradeSubmission settles, given what its collaborators do:
\*   readError          fileToBase64 rejects with the FileReader's event;
\*   apiError           generateContent rejects with an Error;
\*   response           generateContent resolves; text is None for an empty
\*                      or missing response.text, else Some(json) with json
\*                      None when JSON.parse throws, else Some(rawResult).
gradeSubmission(ext) ==
    CASE ext.kind = "readError" -> Rejected(ReadFailureEvent)
      [] ext.kind = "apiError" -> Rejected(ErrorObject(ext.message))
      [] OTHER ->
           IF ext.text # None
           THEN IF ext.text[1] # None
                THEN Resolved(Normalize(ext.text[1][1]))
                ELSE Rejected(ErrorObject("Failed to parse grading results from model response."))
           ELSE Rejected(ErrorObject("Empty response from model"))

RawResult(name, class, total, feedback, scores) ==
    [student_name |-> name, student_class |-> class, total_score |-> total,
     feedback |-> feedback, scores |-> scores]

\* An item of scores; student_answer is a string, a sequence of characters.
ScoreItemAnswered(q, sc, ans) ==
    [q_num |-> q, score |-> sc, student_answer |-> ans, reason |-> "ok"]
ScoreItem(q, sc) == ScoreItemAnswered(q, sc, <<"1">>)

CleanRaw == RawResult(JsString(<<"K">>), JsString(<<"3">>), JsNumber(10),
                      JsString(<<"good">>), JsArray(<<ScoreItem(1, 1)>>))
NoNameRaw == RawResult(JsUndefined, JsString(<<"3">>), JsNumber(8),
                       JsString(<<"good">>), JsArray(<<ScoreItem(1, 1)>>))

ExtReadError == [kind |-> "readError", message |-> "", text |-> None]
ExtApiError(m) == [kind |-> "apiError", message |-> m, text |-> None]
ExtEmpty == [kind |-> "response", message |-> "", text |-> None]
ExtUnparseable == [kind |-> "response", message |-> "", text |-> Some(None)]
ExtJson(raw) == [kind |-> "response", message |-> "", text |-> Some(Some(raw))]

\* Parsed responses for the normalisation: every field missing, of the
\* wrong type, blank, or well-formed.  A response that parses to a number, a
\* string, a boolean or an array reads as the one with every field
\* undefined; one that parses to null makes the property access throw
\* inside the try, which is ExtUnparseable.
ResponseNames ==
    {JsUndefined, JsNull, JsString(<<>>), JsString(<<" ">>), JsString(<<"K">>),
     JsString(<<" ", "K">>), JsNumber(7)}
ResponseClasses ==
    {JsUndefined, JsString(<<>>), JsString(<<" ", " ">>), JsString(<<"3">>),
     JsNumber(3), JsArray(<<>>)}
ResponseTotals == {JsNumber(10), JsNumber(0), JsString(<<"1", "0">>), JsUndefined, JsNull}
ResponseScores ==
    {JsArray(<<ScoreItem(1, 1)>>), JsArray(<<>>), JsUndefined, JsString(<<"x">>)}
ResponseFeedback == {JsString(<<"good">>), JsUndefined}

ResponseOutcomes ==
    {ExtJson(RawResult(n, c, t, f, sc)) :
         n \in ResponseNames, c \in ResponseClasses, t \in ResponseTotals,
         f \in ResponseFeedback, sc \in ResponseScores}
      \cup {ExtEmpty, ExtUnparseable, ExtReadError, ExtApiError("Network error")}

\* The settlements the grading loop is run against.
GradingOutcomes == {ExtJson(CleanRaw), ExtJson(NoNameRaw), ExtEmpty, ExtReadError}

\* ---------------------------------------------------------- startGrading
\* MarkProcessing that leaves the record as it was.
MarkProcessingSkipped(subs, i) == subs

\* { ...newSubmissions[i], status: 'processing' }
MarkProcessing(subs, i) == [subs EXCEPT ![i].status = "processing"]

\* MarkCompleted that turns a flagged result into an error.
MarkCompletedUnlessFlagged(subs, i, result) ==
    IF result.hasOCRIssues
    THEN [subs EXCEPT ![i].status = "error"]
    ELSE [subs EXCEPT ![i].status = "completed", ![i].result = Some(result)]

\* { ...newSubmissions[i], status: 'completed', result }
MarkCompleted(subs, i, result) ==
    [subs EXCEPT ![i].status = "completed", ![i].result = Some(result)]

\* error instanceof Error ? error.message : 'Unknown error'
ErrorMessage(error) == IF error.isError THEN error.message ELSE "Unknown error"

\* MarkError that drops the message.
MarkErrorNoMessage(subs, i, error) == [subs EXCEPT ![i].status = "error"]

\* { ...newSubmissions[i], status: 'error', errorMsg: ... }
MarkError(subs, i, error) ==
    [subs EXCEPT ![i].status = "error", ![i].errorMsg = Some(ErrorMessage(error))]

\* runs[k] is the k-th invocation of startGrading while it is suspended.
ActiveRuns == {k \in 1..MaxRuns : runs[k] # None}

\* LoopArray that also takes up the records the published queue holds and
\* the copy does not.
RECURSIVE NotIn(_, _)
NotIn(subs, ids) ==
    IF subs = <<>> THEN <<>>
    ELSE (IF Head(subs).id \in ids THEN <<>> ELSE <<Head(subs)>>) \o NotIn(Tail(subs), ids)
LoopArrayWithLateRecords(run) ==
    run.newSubmissions \o NotIn(submissions, Ids(run.newSubmissions))

\* The array the loop works on: the copy made when the run started.
LoopArray(run) == run.newSubmissions

\* AwaitingRun whose call always carries the first record's pages.
AwaitingRunFirstPages(newSubmissions, i, reference, outs, exts) ==
    [newSubmissions |-> MarkProcessing(newSubmissions, i),
     i |-> i,
     referenceFile |-> reference,
     call |-> [referenceFile |-> reference, studentFiles |-> newSubmissions[1].files],
     pc |-> "awaiting",
     outs |-> outs,
     exts |-> exts]

\* The loop's state at the await of gradeSubmission for index i (from 1):
\* newSubmissions[i] is marked processing and the call is issued with the
\* reference file the handler closed over and the record's files.  outs are
\* the settlements of the calls awaited so far and exts what the
\* collaborators of gradeSubmission did in each of them.
AwaitingRun(newSubmissions, i, reference, outs, exts) ==
    [newSubmissions |-> MarkProcessing(newSubmissions, i),
     i |-> i,
     referenceFile |-> reference,
     call |-> [referenceFile |-> reference, studentFiles |-> newSubmissions[i].files],
     pc |-> "awaiting",
     outs |-> outs,
     exts |-> exts]

\* startGrading with its first statement moved below the three sets.
startGradingSetsFirst(k) ==
    IF referenceFile = None \/ Len(submissions) = 0
    THEN /\ isGrading' = TRUE
         /\ currentStep' = GRADING
         /\ toastMessage' = None
         /\ UNCHANGED <<submissions, runs, runsStarted>>
    ELSE LET run == AwaitingRun(submissions, 1, referenceFile[1], <<>>, <<>>) IN
         /\ isGrading' = TRUE
         /\ currentStep' = GRADING
         /\ toastMessage' = None
         /\ submissions' = run.newSubmissions
         /\ runs' = [runs EXCEPT ![k] = Some(run)]
         /\ runsStarted' = k

\* Lines 141-156: the guard, the three sets, the copy, and the first
\* iteration up to its await.
startGrading(k) ==
    IF referenceFile = None \/ Len(submissions) = 0
    THEN UNCHANGED <<isGrading, currentStep, toastMessage, submissions, runs,
                     runsStarted>>
    ELSE LET run == AwaitingRun(submissions, 1, referenceFile[1], <<>>, <<>>) IN
         /\ isGrading' = TRUE
         /\ currentStep' = GRADING
         /\ toastMessage' = None
         /\ submissions' = run.newSubmissions
         /\ runs' = [runs EXCEPT ![k] = Some(run)]
         /\ runsStarted' = k

\* The start button of step 2, disabled while the queue is empty.  The
\* model follows at most MaxRuns invocations.
StartGradingUpTo(maxRuns) ==
    /\ Clickable
    /\ currentStep = UPLOAD_STUDENTS
    /\ Len(submissions) # 0
    /\ runsStarted < maxRuns
    /\ startGrading(runsStarted + 1)
    /\ UNCHANGED <<referenceFile, isProcessingPdf, stagedFiles, isBulkMode,
                   pagesPerStudent, uuidCounter, pdfJob, toastTimers>>

StartGrading == StartGradingUpTo(MaxRuns)

\* startGrading as the start button calls it, and called as a function in
\* the states its first statement is written for: without a reference
\* file or with an empty queue.
StartGradingCall(maxRuns) ==
    /\ Clickable
    /\ \/ currentStep = UPLOAD_STUDENTS /\ Len(submissions) # 0
       \/ referenceFile = None
       \/ Len(submissions) = 0
    /\ runsStarted < maxRuns
    /\ startGrading(runsStarted + 1)
    /\ UNCHANGED <<referenceFile, isProcessingPdf, stagedFiles, isBulkMode,
                   pagesPerStudent, uuidCounter, pdfJob, toastTimers>>

\* The promise of gradeSubmission settles, the collaborators doing one of
\* outcomes.
GradeSettlesFrom(k, outcomes) ==
    /\ runs[k] # None
    /\ runs[k][1].pc = "awaiting"
    /\ \E ext \in outcomes :
         runs' = [runs EXCEPT ![k] = Some([runs[k][1] EXCEPT
                     !.pc = "settled",
                     !.outs = Append(@, gradeSubmission(ext)),
                     !.exts = Append(@, ext)])]
    /\ UNCHANGED <<currentStep, referenceFile, submissions, isGrading,
                   toastMessage, isProcessingPdf, stagedFiles, isBulkMode,
                   pagesPerStudent, uuidCounter, runsStarted, pdfJob,
                   toastTimers>>

GradeSettles(k) == GradeSettlesFrom(k, GradingOutcomes)

\* What the awaited call of a settled run settled with.
LastOut(run) == run.outs[Len(run.outs)]

\* newSubmissions after the try/catch of iteration i.
SettleRecord(subs, i, out) ==
    IF out.ok THEN MarkCompleted(subs, i, out.result[1])
    ELSE MarkError(subs, i, out.thrown[1])

\* LoopContinues of a loop that a failed call ends.
LoopStopsOnError(subs, i, out) == out.ok /\ i + 1 <= Len(subs)

\* Whether the loop goes on to index i + 1 (i < newSubmissions.length).
LoopContinues(subs, i, out) == i + 1 <= Len(subs)

\* The continuation after the await: the toast on hasOCRIssues, the record
\* settled and published (line 174), then either the next iteration up to
\* its await (lines 152-156) or setIsGrading(false).
GradeContinue(k) ==
    /\ runs[k] # None
    /\ runs[k][1].pc = "settled"
    /\ LET run == runs[k][1]
           out == LastOut(run)
           settled == SettleRecord(LoopArray(run), run.i, out)
       IN /\ IF out.ok /\ out.result[1].hasOCRIssues
             THEN showToast(ToastOCRIssues)
             ELSE UNCHANGED <<toastMessage, toastTimers>>
          /\ IF LoopContinues(settled, run.i, out)
             THEN LET next == AwaitingRun(settled, run.i + 1, run.referenceFile, run.outs, run.exts) IN
                  /\ submissions' = next.newSubmissions
                  /\ runs' = [runs EXCEPT ![k] = Some(next)]
                  /\ UNCHANGED isGrading
             ELSE /\ submissions' = settled
                  /\ runs' = [runs EXCEPT ![k] = None]
                  /\ isGrading' = FALSE
    /\ UNCHANGED <<currentStep, referenceFile, isProcessingPdf, stagedFiles,
                   isBulkMode, pagesPerStudent, uuidCounter, pdfJob,
                   runsStarted>>

\* ------------------------------------------------- step 3: results table
\* Merge that also puts the record back to pending.
MergeResetting(s, updates) ==
    [f \in DOMAIN s |-> IF f \in DOMAIN updates THEN updates[f]
                        ELSE IF f = "status" THEN "pending" ELSE s[f]]

\* prev.map(s => s.id === id ? { ...s, ...updates } : s)
Merge(s, updates) ==
    [f \in DOMAIN s |-> IF f \in DOMAIN updates THEN updates[f] ELSE s[f]]

updateSubmission(id, updates) ==
    submissions' = [j \in 1..Len(submissions) |->
                      IF submissions[j].id = id
                      THEN Merge(submissions[j], updates)
                      ELSE submissions[j]]

\* What the user types into the name and class inputs before saving.
EditInputs == {[name |-> <<"L">>, class |-> <<>>]}

\* saveEditing(id): the record found by id, its result with the edited
\* name and class, handed to onUpdateSubmission.  The pen and save buttons
\* are rendered only for a record with a result.
SaveEditing ==
    /\ Clickable
    /\ currentStep = GRADING
    /\ \E j \in 1..Len(submissions), edit \in EditInputs :
         /\ submissions[j].result # None
         /\ \A h \in 1..(j - 1) : submissions[h].id # submissions[j].id
         /\ LET updatedResult == [submissions[j].result[1] EXCEPT
                                    !.student_name = edit.name,
                                    !.student_class = edit.class]
            IN updateSubmission(submissions[j].id, [result |-> Some(updatedResult)])
    /\ UNCHANGED <<currentStep, referenceFile, isGrading, toastMessage,
                   isProcessingPdf, stagedFiles, isBulkMode, pagesPerStudent,
                   uuidCounter, runs, runsStarted, pdfJob, toastTimers>>

\* "start a new grading", rendered in step 3 while isGrading is false.
Reset ==
    /\ Clickable
    /\ currentStep = GRADING
    /\ ~isGrading
    /\ submissions' = <<>>
    /\ currentStep' = UPLOAD_STUDENTS
    /\ isBulkMode' = FALSE
    /\ pagesPerStudent' = 1
    /\ UNCHANGED <<referenceFile, isGrading, toastMessage, isProcessingPdf,
                   stagedFiles, uuidCounter, runs, runsStarted, pdfJob, toastTimers>>

\* ------------------------------------------------------ step 3: export
\* A text is a sequence of characters.  A run of characters that holds no
\* comma, quote or line break is written as one element.
Comma == ","
Quote == "\""
LineBreak == "\n"
ByteOrderMark == "BOM"                \* "\uFEFF"

ToastCsvDownloaded == [text |-> "csv-downloaded", count |-> 0]

\* submissions.filter(s => s.status === 'completed' && s.result)
completedSubmissions ==
    SelectSeq(submissions, LAMBDA s : s.status = "completed" /\ s.result # None)

\* Array.prototype.join on texts.
RECURSIVE Join(_, _)
Join(texts, separator) ==
    IF texts = <<>> THEN <<>>
    ELSE IF Len(texts) = 1 THEN texts[1]
    ELSE texts[1] \o <<separator>> \o Join(Tail(texts), separator)

\* The Set every q_num of every completed record is added to.
allQNums ==
    UNION {{completedSubmissions[n].result[1].scores.arr[m].q_num :
               m \in DOMAIN completedSubmissions[n].result[1].scores.arr} :
           n \in DOMAIN completedSubmissions}

\* Array.from(set).sort((a, b) => a - b)
RECURSIVE SortAscending(_)
SortAscending(set) ==
    IF set = {} THEN <<>>
    ELSE LET least == CHOOSE x \in set : \A y \in set : x <= y
         IN <<least>> \o SortAscending(set \ {least})

sortedQNums == SortAscending(allQNums)

\* sortedQNums.flatMap(q => [`Q${q} Ans`, `Q${q} Score`])
RECURSIVE QuestionHeaders(_)
QuestionHeaders(qs) ==
    IF qs = <<>> THEN <<>>
    ELSE << <<"Q" \o ToString(Head(qs)) \o " Ans">>,
            <<"Q" \o ToString(Head(qs)) \o " Score">> >>
             \o QuestionHeaders(Tail(qs))

headers ==
    << <<"Class">>, <<"Name">>, <<"Total Score">> >>
        \o QuestionHeaders(sortedQNums) \o << <<"Feedback">> >>

\* new Map(res.scores.map(s => [s.q_num, {score, ans}])).get(q): of the
\* items with one q_num the last one stays; ans is student_answer || "-".
scoresMapGet(res, q) ==
    LET items == res.scores.arr
        hits == {m \in DOMAIN items : items[m].q_num = q}
    IN IF hits = {} THEN None
       ELSE LET last == items[CHOOSE m \in hits : \A h \in hits : h <= m]
            IN Some([score |-> last.score,
                     ans |-> IF last.student_answer = <<>>
                             THEN <<"-">> ELSE last.student_answer])

\* sortedQNums.flatMap(q => [item ? item.ans : "-", item ? item.score.toString() : "0"])
RECURSIVE qCols(_, _)
qCols(res, qs) ==
    IF qs = <<>> THEN <<>>
    ELSE LET item == scoresMapGet(res, Head(qs))
         IN << IF item # None THEN item[1].ans ELSE <<"-">>,
               IF item # None THEN <<ToString(item[1].score)>> ELSE <<"0">> >>
                \o qCols(res, Tail(qs))

\* `"${text}"`
Quoted(text) == <<Quote>> \o text \o <<Quote>>

\* text.replace(/"/g, '""')
RECURSIVE DoubleQuotes(_)
DoubleQuotes(text) ==
    IF text = <<>> THEN <<>>
    ELSE (IF Head(text) = Quote THEN <<Quote, Quote>> ELSE <<Head(text)>>)
             \o DoubleQuotes(Tail(text))

\* The cells of the row of one result: class and name in quotes, the total,
\* the answer and the score of every question as they are, the feedback in
\* quotes with its quotes doubled.
rowData(res) ==
    << Quoted(res.student_class), Quoted(res.student_name),
       <<ToString(res.total_score.num)>> >>
        \o qCols(res, sortedQNums)
        \o << Quoted(DoubleQuotes(res.feedback.str)) >>

getExportData(separator) ==
    [headerStr |-> Join(headers, separator),
     rowStr |-> Join([n \in DOMAIN completedSubmissions |->
                        Join(rowData(completedSubmissions[n].result[1]), separator)],
                     LineBreak)]

\* [headerStr, rowStr].join('\n') for the comma
csvString ==
    LET data == getExportData(Comma) IN Join(<<data.headerStr, data.rowStr>>, LineBreak)

\* The text of the file handed to the browser: "\uFEFF" + csvString.
DownloadedText == <<ByteOrderMark>> \o csvString

\* handleExportCSV: the table is rendered in step 3 for a queue that is
\* not empty, the button is disabled without a completed record; the file
\* is handed over and the toast shown.
ExportCSV ==
    /\ Clickable
    /\ currentStep = GRADING
    /\ Len(submissions) # 0
    /\ Len(completedSubmissions) # 0
    /\ showToast(ToastCsvDownloaded)
    /\ UNCHANGED <<currentStep, referenceFile, submissions, isGrading,
                   isProcessingPdf, stagedFiles, isBulkMode, pagesPerStudent,
                   uuidCounter, runs, runsStarted, pdfJob>>

\* ------------------------------------------------------------ the system
Init ==
    /\ currentStep = SETUP
    /\ referenceFile = None
    /\ submissions = <<>>
    /\ isGrading = FALSE
    /\ toastMessage = None
    /\ isProcessingPdf = FALSE
    /\ stagedFiles = <<>>
    /\ isBulkMode = FALSE
    /\ pagesPerStudent = 1
    /\ uuidCounter = 1
    /\ runs = [k \in 1..MaxRuns |-> None]
    /\ runsStarted = 0
    /\ pdfJob = None
    /\ toastTimers = 0

Next ==
    \/ HandleReferenceSelect
    \/ RemoveReference
    \/ GoToUpload
    \/ BackToSetup
    \/ ToggleBulkMode
    \/ \E n \in {1, 2} : PagesPreset(n)
    \/ PagesInput
    \/ HandleFileSelect
    \/ PdfConverted
    \/ PdfSegment
    \/ PdfFailed
    \/ AddStudentToQueue
    \/ RemoveStagedFile
    \/ RemoveSubmission
    \/ StartGrading
    \/ \E k \in 1..MaxRuns : GradeSettles(k)
    \/ \E k \in 1..MaxRuns : GradeContinue(k)
    \/ SaveEditing
    \/ Reset
    \/ ToastTimeout
    \/ ToastClose

Spec == Init /\ [][Next]_vars

\* The grading view of the program: every action but those of the bulk
\* upload, which reaches the queue only by appending pending records.
NextGrading ==
    \/ HandleReferenceSelect
    \/ RemoveReference
    \/ GoToUpload
    \/ BackToSetup
    \/ HandleFileSelect
    \/ AddStudentToQueue
    \/ RemoveStagedFile
    \/ RemoveSubmission
    \/ StartGrading
    \/ \E k \in 1..MaxRuns : GradeSettles(k)
    \/ \E k \in 1..MaxRuns : GradeContinue(k)
    \/ SaveEditing
    \/ Reset
    \/ ToastTimeout
    \/ ToastClose

SpecGrading == Init /\ [][NextGrading]_vars

\* The grading view with a single invocation of startGrading and a longer
\* queue: one run under every interleaving of the other user actions.
NextSequential ==
    \/ HandleReferenceSelect
    \/ RemoveReference
    \/ GoToUpload
    \/ BackToSetup
    \/ HandleFileSelectUpTo(MaxSequentialRecords)
    \/ AddStudentToQueueUpTo(MaxSequentialRecords)
    \/ RemoveStagedFile
    \/ RemoveSubmission
    \/ StartGradingUpTo(1)
    \/ \E k \in 1..MaxRuns : GradeSettles(k)
    \/ \E k \in 1..MaxRuns : GradeContinue(k)
    \/ SaveEditing
    \/ Reset
    \/ ToastTimeout
    \/ ToastClose

SpecSequential == Init /\ [][NextSequential]_vars

\* Results for the export: question numbers out of order, with a gap,
\* twice in one result, none at all; an answer left empty and one that is
\* a list ("1,2"); and a call that fails.
ExportRaw(name, scores) ==
    RawResult(JsString(name), JsString(<<"3">>), JsNumber(10),
              JsString(<<"good">>), JsArray(scores))
ExportOutcomes ==
    {ExtJson(ExportRaw(<<"A">>, <<ScoreItemAnswered(2, 1, <<"1">>),
                                  ScoreItemAnswered(1, 0, <<>>)>>)),
     ExtJson(ExportRaw(<<"B">>, <<ScoreItemAnswered(4, 1, <<"1">>),
                                  ScoreItemAnswered(4, 2, <<"2">>)>>)),
     ExtJson(ExportRaw(<<"C">>, <<>>)),
     ExtJson(ExportRaw(<<"D">>, <<ScoreItemAnswered(1, 1, <<"1", Comma, "2">>)>>)),
     ExtEmpty}

\* The grading view with the export, a run at a time.
NextExport ==
    \/ HandleReferenceSelect
    \/ RemoveReference
    \/ GoToUpload
    \/ BackToSetup
    \/ HandleFileSelectUpTo(MaxExportRecords)
    \/ AddStudentToQueueUpTo(MaxExportRecords)
    \/ RemoveStagedFile
    \/ RemoveSubmission
    \/ StartGradingUpTo(1)
    \/ \E k \in 1..MaxRuns : GradeSettlesFrom(k, ExportOutcomes)
    \/ \E k \in 1..MaxRuns : GradeContinue(k)
    \/ SaveEditing
    \/ Reset
    \/ ExportCSV
    \/ ToastTimeout
    \/ ToastClose

SpecExport == Init /\ [][NextExport]_vars

\* The grading view, a run at a time, with startGrading called as a
\* function.
NextSequentialCalls ==
    \/ HandleReferenceSelect
    \/ RemoveReference
    \/ GoToUpload
    \/ BackToSetup
    \/ HandleFileSelectUpTo(MaxSequentialRecords)
    \/ AddStudentToQueueUpTo(MaxSequentialRecords)
    \/ RemoveStagedFile
    \/ RemoveSubmission
    \/ StartGradingCall(1)
    \/ \E k \in 1..MaxRuns : GradeSettles(k)
    \/ \E k \in 1..MaxRuns : GradeContinue(k)
    \/ SaveEditing
    \/ Reset
    \/ ToastTimeout
    \/ ToastClose

SpecSequentialCalls == Init /\ [][NextSequentialCalls]_vars

\* The upload view of the program: every action but those of grading.
NextUpload ==
    \/ HandleReferenceSelect
    \/ RemoveReference
    \/ GoToUpload
    \/ BackToSetup
    \/ ToggleBulkMode
    \/ \E n \in {1, 2} : PagesPreset(n)
    \/ PagesInput
    \/ HandleFileSelectUpTo(MaxUploadRecords)
    \/ PdfConverted
    \/ PdfSegment
    \/ PdfFailed
    \/ AddStudentToQueueUpTo(MaxUploadRecords)
    \/ RemoveStagedFile
    \/ RemoveSubmission
    \/ ToastTimeout
    \/ ToastClose

SpecUpload == Init /\ [][NextUpload]_vars

\* The upload view with addStudentToQueue called as a function.
NextUploadCalls ==
    \/ HandleReferenceSelect
    \/ RemoveReference
    \/ GoToUpload
    \/ BackToSetup
    \/ ToggleBulkMode
    \/ \E n \in {1, 2} : PagesPreset(n)
    \/ PagesInput
    \/ HandleFileSelectUpTo(MaxUploadRecords)
    \/ PdfConverted
    \/ PdfSegment
    \/ PdfFailed
    \/ AddStudentToQueueCall(MaxUploadRecords)
    \/ RemoveStagedFile
    \/ RemoveSubmission
    \/ ToastTimeout
    \/ ToastClose

SpecUploadCalls == Init /\ [][NextUploadCalls]_vars

\* The grading view under the scheduling the runtime gives: a pending call
\* of gradeSubmission returns or throws, and the continuation of a settled
\* await is run by the event loop.
SpecGradingFair ==
    /\ Init
    /\ [][NextGrading]_vars
    /\ \A k \in 1..MaxRuns : WF_vars(GradeSettles(k)) /\ WF_vars(GradeContinue(k))

\* The single-invocation view under the same scheduling.
SpecSequentialFair ==
    /\ Init
    /\ [][NextSequential]_vars
    /\ \A k \in 1..MaxRuns : WF_vars(GradeSettles(k)) /\ WF_vars(GradeContinue(k))

\* The response view: one invocation of startGrading over a short queue,
\* each call settling with any of ResponseOutcomes.
NextResponses ==
    \/ HandleReferenceSelect
    \/ GoToUpload
    \/ HandleFileSelectUpTo(MaxResponseRecords)
    \/ AddStudentToQueueUpTo(MaxResponseRecords)
    \/ StartGradingUpTo(1)
    \/ \E k \in 1..MaxRuns : GradeSettlesFrom(k, ResponseOutcomes)
    \/ \E k \in 1..MaxRuns : GradeContinue(k)
    \/ SaveEditing
    \/ ToastTimeout
    \/ ToastClose

SpecResponses == Init /\ [][NextResponses]_vars

\* ================================================================ claims
Settled(status) == status \in {"completed", "error"}
SettledCount(subs) == Cardinality({j \in 1..Len(subs) : Settled(subs[j].status)})
Statuses(subs) == [j \in 1..Len(subs) |-> subs[j].status]
Finishes(k) == runs[k] # None /\ runs'[k] = None
Starts(k) == runs[k] = None /\ runs'[k] # None
\* Run k issues a call of gradeSubmission in this step.
IssuesCall(k) ==
    /\ runs'[k] # None
    /\ runs'[k][1].pc = "awaiting"
    /\ runs[k] = None \/ runs[k][1].i # runs'[k][1].i

\* C1: when a run of startGrading finishes, a call was made for every record
\* of its queue (the loop stopped at none), the published queue is that
\* queue, every record whose call failed has status error with a message
\* stored (the Error's own message when an Error was thrown), and every
\* record whose call succeeded has status completed with the result the call
\* returned.
C1_PartialFailureTolerance ==
    [][\A k \in 1..MaxRuns :
         Finishes(k) =>
           LET run == runs[k][1]
               n == Len(run.newSubmissions)
           IN /\ Len(run.outs) = n
              /\ Len(submissions') = n
              /\ \A j \in 1..n :
                   /\ submissions'[j].id = run.newSubmissions[j].id
                   /\ run.outs[j].ok =>
                        /\ submissions'[j].status = "completed"
                        /\ submissions'[j].result = run.outs[j].result
                   /\ ~run.outs[j].ok =>
                        /\ submissions'[j].status = "error"
                        /\ submissions'[j].errorMsg # None
                        /\ run.outs[j].thrown[1].isError =>
                             submissions'[j].errorMsg = Some(run.outs[j].thrown[1].message)
      ]_vars

\* A finished run over three records of which exactly one failed.
C1_Witness ==
    /\ runsStarted = 1
    /\ ActiveRuns = {}
    /\ Len(submissions) = 3
    /\ \E k \in 1..3 :
         /\ submissions[k].status = "error"
         /\ submissions[k].errorMsg = Some("Empty response from model")
         /\ \A j \in (1..3) \ {k} :
              submissions[j].status = "completed" /\ submissions[j].result # None

\* C2: within a run the records are taken in queue order: while the run is
\* at record i every earlier record of its queue is completed or error,
\* record i is processing and every later one is still pending; each step
\* of the run publishes exactly the run's queue; and no step of the run
\* changes an earlier record (the result or error stored for it stays).
C2_StrictSequencing ==
    [][\A k \in 1..MaxRuns :
         /\ runs'[k] # None =>
              LET run == runs'[k][1] IN
              /\ \A j \in 1..(run.i - 1) : Settled(run.newSubmissions[j].status)
              /\ run.newSubmissions[run.i].status = "processing"
              /\ \A j \in (run.i + 1)..Len(run.newSubmissions) :
                   run.newSubmissions[j].status = "pending"
         /\ (Starts(k) \/ IssuesCall(k)) => submissions' = runs'[k][1].newSubmissions
         /\ (runs[k] # None /\ runs'[k] # None) =>
              /\ runs'[k][1].i \in {runs[k][1].i, runs[k][1].i + 1}
              /\ \A j \in 1..(runs[k][1].i - 1) :
                   runs'[k][1].newSubmissions[j] = runs[k][1].newSubmissions[j]
         /\ Finishes(k) =>
              /\ runs[k][1].i = Len(runs[k][1].newSubmissions)
              /\ \A j \in 1..Len(submissions') : Settled(submissions'[j].status)
              /\ \A j \in 1..(runs[k][1].i - 1) :
                   submissions'[j] = runs[k][1].newSubmissions[j]
      ]_vars

\* S1 succeeded, S2 failed, S3 is being graded.
C2_Witness ==
    /\ runs[1] # None
    /\ runs[1][1].i = 3
    /\ runs[1][1].pc = "awaiting"
    /\ submissions = runs[1][1].newSubmissions
    /\ Statuses(submissions) = <<"completed", "error", "processing">>

\* The step of handleFileSelect that segments the rasterized pages.
Segments == pdfJob # None /\ pdfJob[1].pc = "resolved" /\ pdfJob' = None

\* The pages of the records from index a on, in record order.
RECURSIVE PagesFrom(_, _)
PagesFrom(subs, a) ==
    IF a > Len(subs) THEN <<>> ELSE subs[a].files \o PagesFrom(subs, a + 1)

\* C3: segmentation of n rasterized pages with pagesPerStudent = p >= 1
\* appends exactly ceil(n/p) records behind the records already queued,
\* all but the last holding exactly p pages, the last holding n mod p pages
\* (p when n mod p = 0); the appended records' pages, in record order, are
\* the page sequence; each appended record is pending; for n = 0 nothing is
\* appended.
C3_Segmentation ==
    [][Segments =>
         LET images == pdfJob[1].images
             n == Len(images)
             p == pdfJob[1].pagesPerStudent
             old == Len(submissions)
             count == Len(submissions') - old
         IN /\ p >= 1
            /\ count = (n + p - 1) \div p
            /\ SubSeq(submissions', 1, old) = submissions
            /\ \A j \in 1..(count - 1) : Len(submissions'[old + j].files) = p
            /\ count > 0 =>
                 Len(submissions'[old + count].files)
                     = (IF n % p = 0 THEN p ELSE n % p)
            /\ PagesFrom(submissions', old + 1) = images
            /\ \A j \in 1..count :
                 /\ submissions'[old + j].status = "pending"
                 /\ submissions'[old + j].result = None
                 /\ submissions'[old + j].errorMsg = None
            /\ (n = 0 => submissions' = submissions)
            /\ (p > n /\ n > 0 => count = 1)
      ]_vars

\* Three pages split two per student: a record of two pages and one of one.
C3_Witness ==
    /\ toastMessage = Some(ToastPdfDone(2))
    /\ Len(submissions) >= 2
    /\ Len(submissions[Len(submissions) - 1].files) = 2
    /\ Len(submissions[Len(submissions)].files) = 1

\* C4: for every record of the queue, result is present only if status is
\* completed and errorMsg is present only if status is error.
C4_ResultErrorConsistent ==
    \A j \in 1..Len(submissions) :
      /\ submissions[j].result # None => submissions[j].status = "completed"
      /\ submissions[j].errorMsg # None => submissions[j].status = "error"

\* C5: at most one call of gradeSubmission is in flight and at most one
\* record of the published queue is processing.
C5_OneCallInFlight ==
    /\ Cardinality({k \in ActiveRuns : runs[k][1].pc = "awaiting"}) <= 1
    /\ Cardinality({j \in 1..Len(submissions) :
                       submissions[j].status = "processing"}) <= 1

\* The record run k takes up in this step, as it was before the step.
TakenUp(k) ==
    IF runs[k] = None THEN submissions[1]
    ELSE runs[k][1].newSubmissions[runs'[k][1].i]

\* C6: a record's status changes only pending->processing,
\* processing->completed and processing->error, and a run issues a call
\* only for a record that was pending.
C6_StatusTransitions ==
    [][/\ \A j \in 1..Len(submissions), h \in 1..Len(submissions') :
            submissions[j].id = submissions'[h].id =>
              \/ submissions'[h].status = submissions[j].status
              \/ <<submissions[j].status, submissions'[h].status>> \in
                    {<<"pending", "processing">>, <<"processing", "completed">>,
                     <<"processing", "error">>}
       /\ \A k \in 1..MaxRuns : IssuesCall(k) => TakenUp(k).status = "pending"
      ]_vars

\* C7: in the step in which a run issues the call for record i, the queue
\* that step publishes is the run's queue with record i processing, so the
\* processing snapshot is published no later than the call; the call
\* carries that record's own files and the reference file the run was
\* started with.
C7_ProcessingBeforeCall ==
    [][\A k \in 1..MaxRuns :
         IssuesCall(k) =>
           LET run == runs'[k][1] IN
           /\ submissions' = run.newSubmissions
           /\ submissions'[run.i].status = "processing"
           /\ run.call.studentFiles = submissions'[run.i].files
           /\ run.call.studentFiles = TakenUp(k).files
           /\ run.call.referenceFile = run.referenceFile
           /\ Starts(k) => Some(run.referenceFile) = referenceFile
           /\ ~Starts(k) => run.referenceFile = runs[k][1].referenceFile
      ]_vars

\* The call for the second record of a run is in flight and the published
\* queue shows that record processing.
C7_Witness ==
    \E k \in ActiveRuns :
      /\ runs[k][1].pc = "awaiting"
      /\ runs[k][1].i = 2
      /\ Len(submissions) = 2
      /\ submissions[2].status = "processing"
      /\ submissions[1].status = "completed"
      /\ runs[k][1].call.studentFiles = submissions[2].files

\* A step of the grading loop: some invocation of startGrading moves.
RunStep == runs' # runs

\* C8: over a run the progress ratio settled / total of the published
\* queue never decreases from one publish of the loop to the next, and it
\* is 1 when a run finishes.  (a/b <= c/d is a*d <= c*b for b, d > 0.)
C8_ProgressMonotone ==
    [][/\ (RunStep /\ ActiveRuns # {} /\ Len(submissions) > 0) =>
            /\ Len(submissions') > 0
            /\ SettledCount(submissions) * Len(submissions')
                  <= SettledCount(submissions') * Len(submissions)
       /\ \A k \in 1..MaxRuns :
            Finishes(k) => /\ Len(submissions') > 0
                           /\ SettledCount(submissions') = Len(submissions')
      ]_vars

\* The ids of a queue, in queue order.
IdSeq(subs) == [j \in 1..Len(subs) |-> subs[j].id]

\* C9: a run works on the records the queue held when it started, in that
\* order, and on no other: its array never gains or loses a record, every
\* call it issues is for a record of that array, it issues one call per
\* record of the array, and its steps move to processing no record that is
\* not in the array.
C9_SnapshotOnly ==
    [][\A k \in 1..MaxRuns :
         /\ Starts(k) => IdSeq(runs'[k][1].newSubmissions) = IdSeq(submissions)
         /\ (runs[k] # None /\ runs'[k] # None) =>
              /\ IdSeq(runs'[k][1].newSubmissions) = IdSeq(runs[k][1].newSubmissions)
              /\ \A j \in 1..Len(runs[k][1].newSubmissions) :
                   runs'[k][1].newSubmissions[j].files = runs[k][1].newSubmissions[j].files
         /\ (runs'[k] # None /\ runs'[k] # runs[k]) =>
              LET run == runs'[k][1] IN
              /\ run.i \in 1..Len(run.newSubmissions)
              /\ Len(run.outs) = (IF run.pc = "awaiting" THEN run.i - 1 ELSE run.i)
              /\ run.call.studentFiles = run.newSubmissions[run.i].files
         /\ Finishes(k) => Len(runs[k][1].outs) = Len(runs[k][1].newSubmissions)
         /\ runs'[k] # runs[k] =>
              LET snapshot == IF runs[k] # None THEN runs[k][1].newSubmissions
                              ELSE submissions
              IN \A j \in 1..Len(submissions), h \in 1..Len(submissions') :
                   (/\ submissions[j].id = submissions'[h].id
                    /\ submissions[j].id \notin Ids(snapshot)) =>
                      submissions'[h].status = submissions[j].status
      ]_vars

\* The awaited call of a run has settled while the published queue holds a
\* record, still pending, that was appended after the run started.
C9_Witness ==
    \E k \in ActiveRuns :
      /\ runs[k][1].pc = "settled"
      /\ \E j \in 1..Len(submissions) :
           /\ submissions[j].id \notin Ids(runs[k][1].newSubmissions)
           /\ submissions[j].status = "pending"

\* A step by which removeSubmission or the reset accounts for a record
\* leaving the queue.
RemovesById == \E id \in Ids(submissions) : submissions' = FilterId(submissions, id)
ResetsQueue == currentStep = GRADING /\ ~isGrading /\ submissions' = <<>>

\* C10: a record leaves the queue only by removeSubmission(id) or by the
\* reset, and a record that has left the queue does not come back (ids are
\* handed out in increasing order, so an id below uuidCounter that enters
\* the queue has been in it before).
C10_LeavesOnlyByRemoveOrReset ==
    [][/\ \/ Ids(submissions) \subseteq Ids(submissions')
          \/ RemovesById
          \/ ResetsQueue
       /\ \A id \in Ids(submissions') \ Ids(submissions) : id >= uuidCounter
      ]_vars

\* C11: a run that has started finishes (given that every call returns or
\* throws); it leaves only by running off the end of its array, one call
\* made per record, and the step by which it leaves sets isGrading to false
\* and publishes the records of its array, each completed or error.
C11_RunFinishes ==
    /\ [][\A k \in 1..MaxRuns :
            Finishes(k) =>
              LET run == runs[k][1] IN
              /\ run.i = Len(run.newSubmissions)
              /\ Len(run.outs) = Len(run.newSubmissions)
              /\ isGrading' = FALSE
              /\ IdSeq(submissions') = IdSeq(run.newSubmissions)
              /\ \A j \in 1..Len(submissions') : Settled(submissions'[j].status)
         ]_vars
    /\ \A k \in 1..MaxRuns : (runs[k] # None) ~> (runs[k] = None)

\* A run over three records has run to its end although the user removed
\* the reference file meanwhile.
C11_Witness ==
    /\ runsStarted = 1
    /\ ActiveRuns = {}
    /\ ~isGrading
    /\ referenceFile = None
    /\ Len(submissions) = 3
    /\ \A j \in 1..3 : Settled(submissions[j].status)

\* The step of handleFileSelect that handles a failed conversion.
HandlesFailure == pdfJob # None /\ pdfJob[1].pc = "rejected" /\ pdfJob' = None

\* C12: from the bulk upload of a PDF until its conversion has settled, and
\* on when convertPdfToImages has thrown, the PDF-processing flag is set and
\* no step changes the queue; the step that handles the failure leaves the
\* queue as it is, hands out no id, shows the failure toast and clears the
\* flag.
C12_RasterizationFailureFatal ==
    [][/\ (pdfJob # None /\ pdfJob[1].pc \in {"converting", "rejected"}) =>
            /\ isProcessingPdf
            /\ submissions' = submissions
            /\ uuidCounter' = uuidCounter
            /\ pdfJob' # None => pdfJob'[1].file = pdfJob[1].file
       /\ (pdfJob # None /\ pdfJob[1].pc = "rejected") =>
            /\ pdfJob[1].images = <<>>
            /\ pdfJob' = None \/ pdfJob' = pdfJob
       /\ HandlesFailure =>
            /\ toastMessage' = Some(ToastPdfError)
            /\ isProcessingPdf' = FALSE
      ]_vars

\* A failed bulk upload has been handled with two records in the queue.
C12_Witness ==
    /\ toastMessage = Some(ToastPdfError)
    /\ ~isProcessingPdf
    /\ pdfJob = None
    /\ Len(submissions) = 2

\* Run k takes the continuation after its settled await in this step.
Continues(k) == runs[k] # None /\ runs[k][1].pc = "settled" /\ runs'[k] # runs[k]

\* The response of the call was empty or did not parse.
NoStructuredData(ext) ==
    ext.kind = "response" /\ (ext.text = None \/ ext.text[1] = None)

\* C13: when the response of a call is empty or does not parse,
\* gradeSubmission throws an Error and returns no result, and the
\* continuation publishes the record as error, with the Error's message and
\* with no result.
C13_HardFailure ==
    [][\A k \in 1..MaxRuns :
         (Continues(k) /\ NoStructuredData(runs[k][1].exts[runs[k][1].i])) =>
           LET run == runs[k][1]
               out == LastOut(run)
           IN /\ ~out.ok
              /\ out.result = None
              /\ out.thrown[1].isError
              /\ submissions'[run.i].id = run.newSubmissions[run.i].id
              /\ submissions'[run.i].status = "error"
              /\ submissions'[run.i].errorMsg = Some(out.thrown[1].message)
              /\ submissions'[run.i].result = None
      ]_vars

\* The awaited call of run k settles in this step.
Settles(k) ==
    /\ runs[k] # None /\ runs[k][1].pc = "awaiting"
    /\ runs'[k] # None /\ runs'[k][1].pc = "settled"

\* The response of the call parsed.
Parsed(ext) == ext.kind = "response" /\ ext.text # None /\ ext.text[1] # None

\* A response field that is missing, not a string, empty or made of white
\* space only.
Blank(v) == v.type # "string" \/ \A c \in 1..Len(v.str) : v.str[c] = " "

\* What the collaborators did in the call run k awaited last, and how the
\* call settled.
LastExt(run) == run.exts[Len(run.exts)]

\* C14: for a parsed response whose student_name is missing, not a string,
\* empty or white space only, the call returns a result whose student_name
\* is the sentinel and whose hasOCRIssues is true; for any other parsed
\* response the result's student_name is the response's.
C14_NameNormalization ==
    [][\A k \in 1..MaxRuns :
         (Settles(k) /\ Parsed(LastExt(runs'[k][1]))) =>
           LET raw == LastExt(runs'[k][1]).text[1][1]
               out == LastOut(runs'[k][1])
           IN /\ out.ok
              /\ Blank(raw.student_name) =>
                   /\ out.result[1].student_name = NameSentinel
                   /\ out.result[1].hasOCRIssues
              /\ ~Blank(raw.student_name) =>
                   out.result[1].student_name = raw.student_name.str
      ]_vars

\* A call has returned the sentinel name for a white-space name.
C14_Witness ==
    \E k \in ActiveRuns :
      /\ runs[k][1].pc = "settled"
      /\ Parsed(LastExt(runs[k][1]))
      /\ LastExt(runs[k][1]).text[1][1].student_name = JsString(<<" ">>)
      /\ LastOut(runs[k][1]).result[1].student_name = NameSentinel
      /\ LastOut(runs[k][1]).result[1].hasOCRIssues

\* C15: for a parsed response whose student_class is missing, not a
\* string, empty or white space only, the call returns a result whose
\* student_class is the sentinel and whose hasOCRIssues is true; for any
\* other parsed response the result's student_class is the response's.
C15_ClassNormalization ==
    [][\A k \in 1..MaxRuns :
         (Settles(k) /\ Parsed(LastExt(runs'[k][1]))) =>
           LET raw == LastExt(runs'[k][1]).text[1][1]
               out == LastOut(runs'[k][1])
           IN /\ out.ok
              /\ Blank(raw.student_class) =>
                   /\ out.result[1].student_class = ClassSentinel
                   /\ out.result[1].hasOCRIssues
              /\ ~Blank(raw.student_class) =>
                   out.result[1].student_class = raw.student_class.str
      ]_vars

\* A call has returned the sentinel class for a class that is white space,
\* the name being well-formed.
C15_Witness ==
    \E k \in ActiveRuns :
      /\ runs[k][1].pc = "settled"
      /\ Parsed(LastExt(runs[k][1]))
      /\ LastExt(runs[k][1]).text[1][1].student_class = JsString(<<" ", " ">>)
      /\ LastExt(runs[k][1]).text[1][1].student_name = JsString(<<"K">>)
      /\ LastOut(runs[k][1]).result[1].student_class = ClassSentinel
      /\ LastOut(runs[k][1]).result[1].hasOCRIssues

\* C16: for a parsed response the result's total_score is the response's
\* when that is a number and the number 0 otherwise, and the result's
\* scores is the response's when that is an array and the empty array
\* otherwise.
C16_ScoreNormalization ==
    [][\A k \in 1..MaxRuns :
         (Settles(k) /\ Parsed(LastExt(runs'[k][1]))) =>
           LET raw == LastExt(runs'[k][1]).text[1][1]
               out == LastOut(runs'[k][1])
           IN /\ out.ok
              /\ out.result[1].total_score.type = "number"
              /\ out.result[1].scores.type = "array"
              /\ raw.total_score.type = "number" =>
                   out.result[1].total_score.num = raw.total_score.num
              /\ raw.total_score.type # "number" =>
                   out.result[1].total_score.num = 0
              /\ raw.scores.type = "array" =>
                   out.result[1].scores.arr = raw.scores.arr
              /\ raw.scores.type # "array" =>
                   out.result[1].scores.arr = <<>>
      ]_vars

\* A call has returned 0 and no scores for a total_score that is a string
\* and scores that are not an array.
C16_Witness ==
    \E k \in ActiveRuns :
      /\ runs[k][1].pc = "settled"
      /\ Parsed(LastExt(runs[k][1]))
      /\ LastExt(runs[k][1]).text[1][1].total_score = JsString(<<"1", "0">>)
      /\ LastExt(runs[k][1]).text[1][1].scores = JsString(<<"x">>)
      /\ LastOut(runs[k][1]).result[1].total_score = JsNumber(0)
      /\ LastOut(runs[k][1]).result[1].scores = JsArray(<<>>)

\* C17: when the awaited call has returned a result with hasOCRIssues, the
\* continuation publishes the record as completed with that result, shows
\* the notification (with its dismissal timer pending) and, in the same
\* step, goes on: the call for the next record is issued, or the run ends
\* when the record was the last.
C17_FlagKeepsStatus ==
    [][\A k \in 1..MaxRuns :
         (Continues(k) /\ LastOut(runs[k][1]).ok
            /\ LastOut(runs[k][1]).result[1].hasOCRIssues) =>
           LET run == runs[k][1] IN
           /\ submissions'[run.i].id = run.newSubmissions[run.i].id
           /\ submissions'[run.i].status = "completed"
           /\ submissions'[run.i].result = LastOut(run).result
           /\ toastMessage' = Some(ToastOCRIssues)
           /\ toastTimers' > 0
           /\ IF run.i < Len(run.newSubmissions)
              THEN /\ IssuesCall(k)
                   /\ runs'[k][1].i = run.i + 1
                   /\ submissions'[run.i + 1].status = "processing"
              ELSE Finishes(k)
      ]_vars

\* The first record is completed with a flagged result, the notification
\* is shown and the call for the second record is in flight.
C17_Witness ==
    /\ toastMessage = Some(ToastOCRIssues)
    /\ Len(submissions) = 2
    /\ submissions[1].status = "completed"
    /\ submissions[1].result # None
    /\ submissions[1].result[1].hasOCRIssues
    /\ submissions[2].status = "processing"
    /\ \E k \in ActiveRuns : runs[k][1].i = 2 /\ runs[k][1].pc = "awaiting"

\* C18: the student_name and student_class of every result stored in the
\* queue are non-empty strings.
C18_NamesNeverEmpty ==
    \A j \in 1..Len(submissions) :
      submissions[j].result # None =>
        /\ submissions[j].result[1].student_name # <<>>
        /\ submissions[j].result[1].student_class # <<>>

\* The conversion of the uploaded PDF resolves in this step.
ConversionResolves ==
    /\ pdfJob # None /\ pdfJob[1].pc = "converting"
    /\ pdfJob' # None /\ pdfJob'[1].pc = "resolved"

\* C19: a conversion that resolves yields one page artifact per page of the
\* PDF, in page order, the i-th being the image of page i.
C19_OneArtifactPerPage ==
    [][ConversionResolves =>
         /\ Len(pdfJob'[1].images) = pdfJob[1].file.numPages
         /\ \A i \in 1..Len(pdfJob'[1].images) :
              pdfJob'[1].images[i] = PageArtifact(pdfJob[1].file, i)
      ]_vars

\* C20: removeSubmission(id) takes out the one record with that id and
\* leaves every other record as it is and in the same order; for an id that
\* is not in the queue the filter returns the queue unchanged.
C20_RemoveExactlyOne ==
    [][/\ RemoveSubmission =>
            \E id \in Ids(submissions) :
              /\ Len(submissions') = Len(submissions) - 1
              /\ submissions' = SelectSeq(submissions, LAMBDA r : r.id # id)
       /\ \A id \in (1..uuidCounter) \ Ids(submissions) :
            FilterId(submissions, id) = submissions
      ]_vars

\* Of three graded records the second has been removed: the first and the
\* third are left, in that order, with their results.
C20_Witness ==
    /\ currentStep = UPLOAD_STUDENTS
    /\ ActiveRuns = {}
    /\ IdSeq(submissions) = <<1, 3>>
    /\ \A j \in 1..2 : Settled(submissions[j].status)

\* C21: the step of saveEditing, which calls updateSubmission(id, {result}),
\* changes the result of the one record with that id, and of the result
\* only the name and the class; the record's id, files, status and
\* errorMsg, every other record, and the order and length of the queue are
\* unchanged.
C21_UpdateMerges ==
    [][SaveEditing =>
         /\ Len(submissions') = Len(submissions)
         /\ \E j \in 1..Len(submissions) :
              /\ \A h \in (1..Len(submissions)) \ {j} : submissions'[h] = submissions[h]
              /\ \A f \in {"id", "files", "status", "errorMsg"} :
                   submissions'[j][f] = submissions[j][f]
              /\ submissions[j].result # None /\ submissions'[j].result # None
              /\ \A f \in {"total_score", "feedback", "scores", "hasOCRIssues"} :
                   submissions'[j].result[1][f] = submissions[j].result[1][f]
              /\ \E edit \in EditInputs :
                   /\ submissions'[j].result[1].student_name = edit.name
                   /\ submissions'[j].result[1].student_class = edit.class
      ]_vars

\* The second of three graded records carries an edited name; its
\* neighbours carry the names the responses gave.
C21_Witness ==
    /\ Len(submissions) = 3
    /\ \A j \in 1..3 : submissions[j].status = "completed" /\ submissions[j].result # None
    /\ submissions[2].result[1].student_name = <<"L">>
    /\ submissions[1].result[1].student_name = <<"K">>
    /\ submissions[3].result[1].student_name = NameSentinel

\* C22: when the awaited call has thrown, whatever the value thrown, the
\* continuation stores the message of that failure as the record's
\* errorMsg.
C22_ErrorMessageIsFailures ==
    [][\A k \in 1..MaxRuns :
         (Continues(k) /\ ~LastOut(runs[k][1]).ok) =>
           /\ submissions'[runs[k][1].i].status = "error"
           /\ submissions'[runs[k][1].i].errorMsg
                 = Some(LastOut(runs[k][1]).thrown[1].message)
      ]_vars

\* C23: the records of the queue have pairwise distinct ids, and a record
\* keeps its id: a record of the queue after a step that holds the files of
\* a record of the queue before it (every student's files are different
\* files) has that record's id.
C23_IdsUniqueAndStable ==
    [][/\ \A j, h \in 1..Len(submissions') :
            submissions'[j].id = submissions'[h].id => j = h
       /\ \A j \in 1..Len(submissions), h \in 1..Len(submissions') :
            submissions'[h].files = submissions[j].files =>
              submissions'[h].id = submissions[j].id
      ]_vars

\* Two records with different files and ids, the first graded and edited
\* by the user, the second being graded.
C23_Witness ==
    /\ Len(submissions) = 2
    /\ submissions[1].id # submissions[2].id
    /\ submissions[1].files # submissions[2].files
    /\ submissions[1].result # None
    /\ submissions[1].result[1].student_name = <<"L">>
    /\ submissions[2].status = "processing"

PagesNonEmpty(queue) == \A j \in 1..Len(queue) : Len(queue[j].files) > 0

\* C24: every record of the queue has at least one page, before and after
\* every step; a step taken with nothing staged and no PDF being segmented
\* appends no record, and the records a step appends have pages.
C24_PagesNonEmpty ==
    [][/\ PagesNonEmpty(submissions)
       /\ PagesNonEmpty(submissions')
       /\ (Len(stagedFiles) = 0 /\ pdfJob = None) =>
             Len(submissions') <= Len(submissions)
      ]_vars

\* A PDF of three pages segmented at two pages a student: a record of two
\* pages and one of the page left over, and nothing staged.
C24_Witness ==
    /\ Len(submissions) = 2
    /\ Len(submissions[1].files) = 2
    /\ Len(submissions[2].files) = 1
    /\ Len(stagedFiles) = 0
    /\ pdfJob = None
    /\ ~isBulkMode

\* How a reader of delimited text takes a text apart: cells end at the
\* separator, rows at the line break; a cell that opens with a quote runs
\* to its closing quote, a doubled quote inside it standing for one.
RECURSIVE ReadQuoted(_, _, _)
ReadQuoted(text, i, cell) ==
    IF i > Len(text) THEN [cell |-> cell, next |-> i]
    ELSE IF text[i] = Quote
    THEN IF i < Len(text) /\ text[i + 1] = Quote
         THEN ReadQuoted(text, i + 2, Append(cell, Quote))
         ELSE [cell |-> cell, next |-> i + 1]
    ELSE ReadQuoted(text, i + 1, Append(cell, text[i]))

RECURSIVE ReadPlain(_, _, _, _)
ReadPlain(text, separator, i, cell) ==
    IF i > Len(text) \/ text[i] \in {separator, LineBreak}
    THEN [cell |-> cell, next |-> i]
    ELSE ReadPlain(text, separator, i + 1, Append(cell, text[i]))

\* The cell that starts at i and the place where it ends.
ReadCell(text, separator, i) ==
    IF i <= Len(text) /\ text[i] = Quote
    THEN LET quoted == ReadQuoted(text, i + 1, <<>>)
         IN ReadPlain(text, separator, quoted.next, quoted.cell)
    ELSE ReadPlain(text, separator, i, <<>>)

RECURSIVE ReadRow(_, _, _, _)
ReadRow(text, separator, i, row) ==
    LET c == ReadCell(text, separator, i) IN
    IF c.next <= Len(text) /\ text[c.next] = separator
    THEN ReadRow(text, separator, c.next + 1, Append(row, c.cell))
    ELSE [row |-> Append(row, c.cell), next |-> c.next]

RECURSIVE ReadRows(_, _, _, _)
ReadRows(text, separator, i, rows) ==
    LET r == ReadRow(text, separator, i, <<>>) IN
    IF r.next <= Len(text)
    THEN ReadRows(text, separator, r.next + 1, Append(rows, r.row))
    ELSE Append(rows, r.row)

ReadDelimited(text, separator) ==
    ReadRows(IF text # <<>> /\ text[1] = ByteOrderMark THEN Tail(text) ELSE text,
             separator, 1, <<>>)

\* The question numbers of the completed records that have a result, and
\* the place of one of them among them in ascending order.
QuestionNumbers ==
    {q \in 0..MaxQuestion :
        \E j \in 1..Len(submissions) :
           /\ submissions[j].status = "completed"
           /\ submissions[j].result # None
           /\ \E m \in 1..Len(submissions[j].result[1].scores.arr) :
                submissions[j].result[1].scores.arr[m].q_num = q}
Place(q) == Cardinality({p \in QuestionNumbers : p <= q})

\* The table the exported file reads as covers the records: a header, then
\* one row for every completed record with a result, in the order of the
\* queue, each carrying the class and name of its record; the columns are
\* class, name, total, an answer and a score column for every question
\* number in ascending order, and feedback, in every row.
Covers(table) ==
    /\ Len(table) = 1 + Len(completedSubmissions)
    /\ \A n \in 1..Len(table) : Len(table[n]) = 4 + 2 * Cardinality(QuestionNumbers)
    /\ \A q \in QuestionNumbers :
         /\ table[1][2 + 2 * Place(q)] = <<"Q" \o ToString(q) \o " Ans">>
         /\ table[1][3 + 2 * Place(q)] = <<"Q" \o ToString(q) \o " Score">>
    /\ \A n \in 1..Len(completedSubmissions) :
         /\ table[n + 1][1] = completedSubmissions[n].result[1].student_class
         /\ table[n + 1][2] = completedSubmissions[n].result[1].student_name

\* C25: the file an export produces reads as a table with one row for
\* every completed record that has a result, in queue order and no other
\* row but the header, and with one answer and one score column for every
\* question number of those records, in ascending order, in every row.
C25_ExportCovers ==
    [][ExportCSV => Covers(ReadDelimited(DownloadedText, Comma))]_vars

\* The record carries a correction the user saved.
Corrected(s) ==
    /\ s.status = "completed"
    /\ s.result # None
    /\ \E edit \in EditInputs : /\ s.result[1].student_name = edit.name
                                /\ s.result[1].student_class = edit.class

\* C26: a completed record that carries a correction saved during the run
\* carries it after the step that finishes the run.
C26_CorrectionSurvivesRun ==
    [][(ActiveRuns # {} /\ ActiveRuns' = {}) =>
         \A j \in 1..Len(submissions) :
            Corrected(submissions[j]) =>
              /\ j <= Len(submissions')
              /\ submissions'[j].id = submissions[j].id
              /\ Corrected(submissions'[j])
      ]_vars

\* C27: while a record of the queue is processing, isGrading is true.
C27_ProcessingImpliesGrading ==
    (\E j \in 1..Len(submissions) : submissions[j].status = "processing") => isGrading

\* C28: in steps UPLOAD_STUDENTS and GRADING a reference file is set.
C28_StepsNeedReference ==
    currentStep \in {UPLOAD_STUDENTS, GRADING} => referenceFile # None

\* The reference removed in the middle of a run: the page is back at
\* SETUP without a reference while a call is in flight.
C28_Witness ==
    /\ currentStep = SETUP
    /\ referenceFile = None
    /\ ActiveRuns # {}
    /\ isGrading

\* C29: a call of startGrading made without a reference file or with an
\* empty queue leaves the queue and every record's status, isGrading,
\* currentStep and the notification as they are, and issues no call.
C29_GuardedStartIsNoOp ==
    [][(StartGradingCall(1) /\ (referenceFile = None \/ Len(submissions) = 0)) =>
         UNCHANGED <<submissions, isGrading, currentStep, toastMessage, runs,
                     runsStarted>>
      ]_vars

\* A queue with a record and no reference file, and no run yet:
\* startGrading can be called and returns at its first statement.
C29_Witness ==
    /\ referenceFile = None
    /\ Len(submissions) = 1
    /\ submissions[1].status = "pending"
    /\ currentStep = SETUP
    /\ ~isGrading
    /\ runsStarted = 0
    /\ ENABLED StartGradingCall(1)

\* C30: for a parsed response, the result's hasOCRIssues is true exactly
\* when the response's student_name or its student_class is replaced by the
\* sentinel (the field is missing, not a string, empty or white space
\* only), whatever becomes of total_score, scores and feedback.
C30_FlagIffSentinel ==
    [][\A k \in 1..MaxRuns :
         (Settles(k) /\ Parsed(LastExt(runs'[k][1]))) =>
           LET raw == LastExt(runs'[k][1]).text[1][1]
               out == LastOut(runs'[k][1])
           IN /\ out.ok
              /\ out.result[1].hasOCRIssues <=>
                   (Blank(raw.student_name) \/ Blank(raw.student_class))
      ]_vars

\* A response with a name and a class and nothing else: total_score,
\* scores and feedback are defaulted and the flag is not raised.
C30_Witness ==
    \E k \in ActiveRuns :
      /\ runs[k][1].pc = "settled"
      /\ Parsed(LastExt(runs[k][1]))
      /\ LastExt(runs[k][1]).text[1][1] =
            RawResult(JsString(<<"K">>), JsString(<<"3">>), JsUndefined,
                      JsUndefined, JsUndefined)
      /\ LastOut(runs[k][1]).result[1].total_score = JsNumber(0)
      /\ LastOut(runs[k][1]).result[1].scores = JsArray(<<>>)
      /\ LastOut(runs[k][1]).result[1].feedback = FeedbackSentinel
      /\ ~LastOut(runs[k][1]).result[1].hasOCRIssues

====
